---- MODULE Spec2Model ----
(***************************************************************************)
(* Ingestion-and-detection engine of the fraud-detection logger:           *)
(* KafkaConsumer (src/src/kafka/consumer.js) driving FraudDetectionService *)
(* (src/src/services/fraudDetectionService.js).  Times are milliseconds.   *)
(***************************************************************************)
EXTENDS Integers, Sequences, FiniteSets, TLC

\* ------------------------------------------------------------------ bounds
\* number of messages the source delivers in one behaviour
MaxDeliveries == 2
\* the source delivers during this many steps of BaseDelayMs; after that the
\* clock advances only while a retry timer is still pending
MaxTicks == 1
\* number of start() calls that go on to connect
MaxStarts == 1
\* number of times a collaborator (logger, metrics, heartbeat) throws
MaxFaults == 4

\* ------------------------------------------------------- program constants
maxRetries == 3
BaseDelayMs == 1000
WindowMs == 10000
StdTTL == 10
HighAmountLimit == 5000
RoundAmountStep == 1000

\* ---------------------------------------------------------------- payloads
\* const required = [...]
required == << "transactionId", "userId", "amount", "location", "timestamp" >>

RequiredFields == { required[i] : i \in DOMAIN required }

\* strings that are inspected character by character are sequences of
\* one-character strings
USA == << "U", "S", "A" >>
Nigeria == << "N", "i", "g", "e", "r", "i", "a" >>
Whitespace == {" ", "\t"}

\* a payload that JSON.parse rejects
Malformed ==
    [wellFormed |-> FALSE, present |-> {}, transactionId |-> "", userId |-> "",
     amount |-> 0, amountIsNumber |-> FALSE, location |-> << >>,
     locationIsString |-> FALSE, timestampParses |-> FALSE,
     timestampTruthy |-> FALSE, timestamp |-> 0]

\* a well-formed payload carrying all five fields; timestamp is the event
\* time the payload states, in ms.  present holds the fields whose value is
\* neither undefined nor null; a field whose ...IsNumber / ...IsString flag
\* is FALSE holds a truthy value of another type; timestampTruthy and
\* timestampParses say what !data.timestamp and new Date(data.timestamp)
\* make of the timestamp
Tx(id, user, amt, loc) ==
    [wellFormed |-> TRUE, present |-> RequiredFields, transactionId |-> id,
     userId |-> user, amount |-> amt, amountIsNumber |-> TRUE, location |-> loc,
     locationIsString |-> TRUE, timestampParses |-> TRUE,
     timestampTruthy |-> TRUE, timestamp |-> 0]

Users == {"u1", "u2"}

\* the payloads the source may deliver
Payloads ==
    { Malformed,
      Tx("t0", "u1", 0 - 100, USA),
      Tx("t1", "u1", 6000, Nigeria),
      Tx("t2", "u1", 1234, USA) }

\* ------------------------------------------------------- Transaction model
\* String.prototype.trim
RECURSIVE trim(_)
trim(str) ==
    IF str = << >> THEN str
    ELSE IF Head(str) \in Whitespace THEN trim(Tail(str))
    ELSE IF str[Len(str)] \in Whitespace THEN trim(SubSeq(str, 1, Len(str) - 1))
    ELSE str

\* !data[field] for a field the object holds: 0, "" and the like are falsy
Falsy(d, field) ==
    CASE field = "transactionId" -> d.transactionId = ""
      [] field = "userId"        -> d.userId = ""
      [] field = "amount"        -> d.amountIsNumber /\ d.amount = 0
      [] field = "location"      -> d.locationIsString /\ d.location = << >>
      [] field = "timestamp"     -> ~d.timestampTruthy

\* a filter that stops at the first missing field
missing_firstOnly(d) ==
    LET all == SelectSeq(required, LAMBDA field : field \notin d.present \/ Falsy(d, field))
    IN  IF all = << >> THEN all ELSE << Head(all) >>

\* const missing = required.filter(field => !data[field])
missing(d) ==
    SelectSeq(required, LAMBDA field : field \notin d.present \/ Falsy(d, field))

NoError == [message |-> "", fields |-> << >>]

\* Transaction.validate: the error it throws, NoError when it accepts; the
\* message `Missing required fields: a, b` is kept as the text and the list
validate(d) ==
    IF Len(missing(d)) > 0
      THEN [message |-> "Missing required fields", fields |-> missing(d)]
    ELSE IF ~d.amountIsNumber \/ d.amount <= 0
      THEN [message |-> "Amount must be a positive number", fields |-> << >>]
    ELSE IF ~d.locationIsString \/ trim(d.location) = << >>
      THEN [message |-> "Location must be a non-empty string", fields |-> << >>]
    ELSE IF ~d.timestampParses
      THEN [message |-> "Invalid timestamp format", fields |-> << >>]
    ELSE NoError

\* a checkFraudRules that returns after the first rule that matched
checkFraudRules_shortCircuit(d) ==
    IF d.amount > HighAmountLimit /\ d.location # USA
      THEN << [rule |-> "HIGH_AMOUNT_NON_USA", severity |-> "HIGH"] >>
    ELSE IF d.amount % RoundAmountStep = 0
      THEN << [rule |-> "ROUND_AMOUNT", severity |-> "MEDIUM"] >>
    ELSE << >>

\* Transaction.checkFraudRules, on the fields the constructor copied
checkFraudRules(d) ==
    (IF d.amount > HighAmountLimit /\ d.location # USA
        THEN << [rule |-> "HIGH_AMOUNT_NON_USA", severity |-> "HIGH"] >> ELSE << >>)
    \o
    (IF d.amount % RoundAmountStep = 0
        THEN << [rule |-> "ROUND_AMOUNT", severity |-> "MEDIUM"] >> ELSE << >>)

\* --------------------------------------------------------------- variables
VARIABLES
    now,          \* Date.now()
    cache,        \* userTransactionCache: userId -> [present, entries, exp]
    hits,         \* node-cache stats.hits
    misses,       \* node-cache stats.misses
    store,        \* fraudulentTransactions
    isRunning,    \* KafkaConsumer.isRunning
    runner,       \* the broker client's run loop: "off" or "on"
    startPc,      \* position of each start() call
    stopPc,       \* position of the stop() call
    mode,         \* the handler the source drives: "message" or "batch"
    delivered,    \* number of messages delivered so far (the last offset)
    msgs,         \* offset -> payload delivered at that offset
    mainCur,      \* offset the main path is handling, 0 when it is between messages
    batchLeft,    \* messages of the current batch not yet taken
    resolved,     \* offsets passed to resolveOffset
    timers,       \* pending setTimeout callbacks of addToRetryQueue
    recOf,        \* history: offset whose evaluation appended store[i]
    chain,        \* history: per offset, the retry state machine
    evals,        \* history: per user, evaluations done and the time of the first
    faults,       \* history: number of times a collaborator has thrown
    stopped,      \* history: stop() has completed and start() was not called since
    starts,       \* history: number of start() calls that went on to connect
    log,          \* history: the evaluations and cache clears of direct service calls
    reply,        \* what the last direct call returned
    data          \* the record handed to the Transaction model

vars == << now, cache, hits, misses, store, isRunning, runner, startPc, stopPc,
           mode, delivered, msgs, mainCur, batchLeft, resolved, timers,
           recOf, chain, evals, faults, stopped, starts, log, reply,
           data >>

svcVars == << cache, hits, misses, store >>
lifeVars == << isRunning, runner, startPc, stopPc, stopped, starts >>
loopVars == << mode, delivered, msgs, mainCur, batchLeft, resolved >>
histVars == << recOf, chain, evals, faults >>
svcHist == << log, reply, data >>

Callers == {1, 2}
Offsets == 1 .. MaxDeliveries

\* ------------------------------------------------- FraudDetectionService
\* the service's state as one value
Svc == [cache |-> cache, hits |-> hits, misses |-> misses, store |-> store]

NoEntry == [present |-> FALSE, entries |-> << >>, exp |-> 0]

\* a cache whose keys stop being served 5 s before their ttl has passed
CacheAlive_early(c, u, t) == c[u].present /\ t <= c[u].exp - 5000

\* node-cache: a key is served until its expiry instant has passed
CacheAlive(c, u, t) == c[u].present /\ t <= c[u].exp

\* a filter that keeps an entry that is exactly 10 s old
FilterWindow_inclusive(entries, t) ==
    SelectSeq(entries, LAMBDA e : (t - e.timestamp) <= WindowMs)

\* the filter of checkRapidTransactions: entries younger than the window
FilterWindow(entries, t) ==
    SelectSeq(entries, LAMBDA e : (t - e.timestamp) < WindowMs)

\* an update that does not record the arrival
pushEntry_skip(userTransactions, entry) == userTransactions

\* userTransactions.push({transactionId, timestamp: now})
pushEntry(userTransactions, entry) == Append(userTransactions, entry)

\* a rule that measures by the event time the transaction states
arrivalTime_event(d, t) == d.timestamp

\* const now = Date.now(): the instant the rule measures by and records
arrivalTime(d, t) == t

\* a cache key that is the same for every user
userKey_shared(userId) == "u1"

\* const userKey = `user_${transaction.userId}`: one cache key per user id
userKey(userId) == userId

\* a rule that needs three transactions in the window
isRapid_atLeastThree(n) == n > 2

\* if (userTransactions.length > 1)
isRapid(n) == n > 1

\* a checkRapidTransactions whose cache counts every lookup as a hit
checkRapidTransactions_alwaysHit(s, d, t) ==
    LET u        == userKey(d.userId)
        at       == arrivalTime(d, t)
        hit      == CacheAlive(s.cache, u, t)
        old      == IF hit THEN s.cache[u].entries ELSE << >>
        kept     == FilterWindow(old, at)
        userTxns == pushEntry(kept, [transactionId |-> d.transactionId, timestamp |-> at])
    IN  [ svc |-> [s EXCEPT !.cache[u] = [present |-> TRUE, entries |-> userTxns,
                                          exp |-> t + StdTTL * 1000],
                            !.hits = @ + 1],
          violation |-> IF isRapid(Len(userTxns))
                          THEN << [rule |-> "RAPID_TRANSACTIONS", severity |-> "HIGH",
                                   transactionCount |-> Len(userTxns)] >>
                          ELSE << >> ]

\* a checkRapidTransactions that stores only the new arrival
checkRapidTransactions_lostUpdate(s, d, t) ==
    LET u        == d.userId
        hit      == CacheAlive(s.cache, u, t)
        userTxns == << [transactionId |-> d.transactionId, timestamp |-> t] >>
    IN  [ svc |-> [s EXCEPT !.cache[u] = [present |-> TRUE, entries |-> userTxns,
                                          exp |-> t + StdTTL * 1000],
                            !.hits = IF hit THEN @ + 1 ELSE @,
                            !.misses = IF hit THEN @ ELSE @ + 1],
          violation |-> << >> ]

\* checkRapidTransactions: cache get, filter, push, cache set, rule
checkRapidTransactions(s, d, t) ==
    LET u        == userKey(d.userId)
        at       == arrivalTime(d, t)
        hit      == CacheAlive(s.cache, u, t)
        old      == IF hit THEN s.cache[u].entries ELSE << >>
        kept     == FilterWindow(old, at)
        userTxns == pushEntry(kept, [transactionId |-> d.transactionId, timestamp |-> at])
    IN  [ svc |-> [s EXCEPT !.cache[u] = [present |-> TRUE, entries |-> userTxns,
                                          exp |-> t + StdTTL * 1000],
                            !.hits = IF hit THEN @ + 1 ELSE @,
                            !.misses = IF hit THEN @ ELSE @ + 1],
          violation |-> IF isRapid(Len(userTxns))
                          THEN << [rule |-> "RAPID_TRANSACTIONS", severity |-> "HIGH",
                                   transactionCount |-> Len(userTxns)] >>
                          ELSE << >> ]

\* a push that puts the record in front
push_front(st, rec) == << rec >> \o st

\* a push that skips a transaction id the store already holds
push_dedupe(st, rec) ==
    IF \E i \in DOMAIN st : st[i].transactionId = rec.transactionId
      THEN st ELSE Append(st, rec)

\* this.fraudulentTransactions.push(fraudRecord)
push(st, rec) == Append(st, rec)

\* a test that files every evaluated transaction
isFlagged_always(fraudViolations) == TRUE

\* if (fraudViolations.length > 0)
isFlagged(fraudViolations) == Len(fraudViolations) > 0

\* the record pushed on fraudulentTransactions
FraudRecord(d, violations) ==
    [transactionId |-> d.transactionId, userId |-> d.userId, amount |-> d.amount,
     location |-> d.location, violations |-> violations, isSuspicious |-> TRUE]

\* processTransaction.  fault is what the collaborators (logger, metrics) do
\* during the call: "none", "pre" (one of them throws before the rules run)
\* or "post" (one of them throws after the window update and the push).
processTransaction(s, d, t, fault) ==
    IF validate(d) # NoError
      THEN [svc |-> s, ok |-> FALSE, violations |-> << >>, error |-> "ValidationError"]
    ELSE IF fault = "pre"
      THEN [svc |-> s, ok |-> FALSE, violations |-> << >>,
            error |-> "TransientProcessingError"]
    ELSE
      LET rapid           == checkRapidTransactions(s, d, t)
          fraudViolations == checkFraudRules(d) \o rapid.violation
          s2 == IF isFlagged(fraudViolations)
                  THEN [rapid.svc EXCEPT
                          !.store = push(@, FraudRecord(d, fraudViolations))]
                  ELSE rapid.svc
      IN  [svc |-> s2, ok |-> fault # "post", violations |-> fraudViolations,
           error |-> IF fault = "post" THEN "TransientProcessingError" ELSE ""]

\* ----------------------------------------------------------- KafkaConsumer
\* processMessage: JSON.parse, then processTransaction; every error is
\* logged and thrown again
processMessage(s, p, t, fault) ==
    IF ~p.wellFormed
      THEN [svc |-> s, ok |-> FALSE, violations |-> << >>, error |-> "MalformedMessage"]
      ELSE processTransaction(s, p, t, fault)

\* a backoff that grows by one base delay per retry
retryDelay_linear(retryCount) == (retryCount + 1) * BaseDelayMs

\* retryDelay of addToRetryQueue
retryDelay(retryCount) == (2 ^ retryCount) * BaseDelayMs

\* an addToRetryQueue that counts a failed retry twice
addToRetryQueue_doubleStep(ts, off, retryCount, t) ==
    IF retryCount >= maxRetries
      THEN ts
      ELSE ts \cup { [offset |-> off,
                      retryCount |-> IF retryCount = 0 THEN 0 ELSE retryCount + 1,
                      scheduledAt |-> t, delay |-> retryDelay(retryCount)] }

\* an addToRetryQueue that gives up one failure too late
addToRetryQueue_offByOne(ts, off, retryCount, t) ==
    IF retryCount > maxRetries
      THEN ts
      ELSE ts \cup { [offset |-> off, retryCount |-> retryCount,
                      scheduledAt |-> t, delay |-> retryDelay(retryCount)] }

\* addToRetryQueue: the timers pending after the call
addToRetryQueue(ts, off, retryCount, t) ==
    IF retryCount >= maxRetries
      THEN ts
      ELSE ts \cup { [offset |-> off, retryCount |-> retryCount,
                      scheduledAt |-> t, delay |-> retryDelay(retryCount)] }

Faults == {"none", "pre", "post"}

\* ---------------------------------------------------------------- history
NoChain == [status |-> "None", mains |-> 0, delays |-> << >>, waits |-> << >>,
            later |-> << >>, would |-> << >>, last |-> << >>, transient |-> FALSE]

NoEvals == [n |-> 0, first |-> 0, flagged |-> 0]

\* no direct service call has returned yet
NoReply == [op |-> "none"]

\* a payload that decodes and validates
IsValid(p) == p.wellFormed /\ validate(p) = NoError

\* the violation list an evaluation of d at time t computes in service state s
Evaluate(s, d, t) == checkFraudRules(d) \o checkRapidTransactions(s, d, t).violation

\* the main-path attempt of offset off with payload p begins
ChainBegin(ch, off, p) ==
    [ch EXCEPT ![off].status = "Pending",
               ![off].mains = @ + 1,
               ![off].would = IF IsValid(p) THEN Evaluate(Svc, p, now) ELSE << >>]

\* an attempt of offset off succeeded with the violation list v
ChainSucceed(ch, off, v) ==
    [ch EXCEPT ![off].status = "Succeeded", ![off].last = v]

\* an attempt of offset off with payload p failed and addToRetryQueue turned
\* the pending timers ts0 into ts1
ChainFail(ch, off, ts0, ts1, p) ==
    IF ts1 \subseteq ts0
      THEN [ch EXCEPT ![off].status = "Exhausted"]
      ELSE LET t == CHOOSE x \in ts1 \ ts0 : TRUE
           IN  [ch EXCEPT ![off].status = "Scheduled",
                          ![off].delays = Append(@, t.delay),
                          ![off].transient = IF t.retryCount = 0 THEN IsValid(p) ELSE @]

\* the error of an attempt of offset off left the handler or the callback
ChainEscape(ch, off) == [ch EXCEPT ![off].status = "Escaped"]

\* a retry callback of offset off runs after waiting w
ChainRetry(ch, off, w) ==
    [ch EXCEPT ![off].waits = Append(@, w),
               ![off].later = Append(@, delivered > off)]

\* what a call of processMessage with payload p did to the service
Evaluated(r) == r.svc.hits + r.svc.misses # hits + misses

RecordHistory(r, p, off) ==
    /\ recOf' = IF Len(r.svc.store) > Len(store) THEN Append(recOf, off) ELSE recOf
    /\ evals' = IF Evaluated(r)
                  THEN [evals EXCEPT ![p.userId] =
                         [n |-> @.n + 1,
                          first |-> IF @.n = 0 THEN now ELSE @.first,
                          flagged |-> IF Len(r.violations) > 0 THEN @.flagged + 1
                                                               ELSE @.flagged]]
                  ELSE evals

\* ------------------------------------------------------------------- Init
Constructed ==
    /\ now = 0
    /\ cache = [u \in Users |-> NoEntry]
    /\ hits = 0
    /\ misses = 0
    /\ store = << >>
    /\ isRunning = FALSE
    /\ runner = "off"
    /\ startPc = [c \in Callers |-> "idle"]
    /\ stopPc = "idle"
    /\ mode \in {"message", "batch"}
    /\ delivered = 0
    /\ msgs = [o \in Offsets |-> Malformed]
    /\ mainCur = 0
    /\ batchLeft = 0
    /\ resolved = {}
    /\ timers = {}
    /\ recOf = << >>
    /\ chain = [o \in Offsets |-> NoChain]
    /\ evals = [u \in Users |-> NoEvals]
    /\ faults = 0
    /\ stopped = FALSE
    /\ starts = 0
    /\ log = << >>
    /\ reply = NoReply

Init == Constructed /\ data = Malformed

\* --------------------------------------------------------------- lifecycle
\* start(): the isRunning check, up to the await of connect()
StartWithin(c, limit) ==
    /\ startPc[c] = "idle"
    /\ IF isRunning
         THEN UNCHANGED << startPc, stopped, starts >>
         ELSE /\ starts < limit
              /\ starts' = starts + 1
              /\ startPc' = [startPc EXCEPT ![c] = "connecting"]
              /\ stopped' = FALSE
    /\ UNCHANGED << svcHist, now, svcVars, isRunning, runner, stopPc, loopVars, timers, histVars >>

\* start() called by c, in a behaviour of at most MaxStarts connects
StartCall(c) == StartWithin(c, MaxStarts)

\* a catch block that leaves the flag as it is
startFailed_keepsFlag(running) == running

\* the catch block of start(): this.isRunning = false
startFailed(running) == FALSE

\* start(): connect() settles; on success isRunning is set and run() awaited
ConnectDone(c, ok) ==
    /\ startPc[c] = "connecting"
    /\ IF ok
         THEN /\ isRunning' = TRUE
              /\ startPc' = [startPc EXCEPT ![c] = "run"]
         ELSE /\ isRunning' = startFailed(isRunning)
              /\ startPc' = [startPc EXCEPT ![c] = "idle"]
    /\ UNCHANGED << svcHist, now, svcVars, runner, stopPc, stopped, starts, loopVars, timers,
                    histVars >>

\* start(): consumer.run() settles; the run loop takes no messages when a
\* disconnect is under way or has completed
RunDone(c, ok) ==
    /\ startPc[c] = "run"
    /\ startPc' = [startPc EXCEPT ![c] = "idle"]
    /\ IF ok
         THEN /\ runner' = IF stopPc = "idle" /\ isRunning THEN "on" ELSE runner
              /\ UNCHANGED isRunning
         ELSE /\ isRunning' = startFailed(isRunning)
              /\ UNCHANGED runner
    /\ UNCHANGED << svcHist, now, svcVars, stopPc, stopped, starts, loopVars, timers, histVars >>

\* stop(): the isRunning check, up to the await of disconnect(); the
\* broker client's run loop stops taking messages at once
StopCall ==
    /\ stopPc = "idle"
    /\ IF ~isRunning
         THEN UNCHANGED << stopPc, runner >>
         ELSE /\ stopPc' = "disconnecting"
              /\ runner' = "off"
    /\ UNCHANGED << svcHist, now, svcVars, isRunning, startPc, stopped, starts, loopVars, timers,
                    histVars >>

\* stop(): disconnect() settles once the handler in flight has returned
DisconnectDone(ok) ==
    /\ stopPc = "disconnecting"
    /\ mainCur = 0
    /\ batchLeft = 0
    /\ stopPc' = "idle"
    /\ IF ok
         THEN /\ isRunning' = FALSE
              /\ stopped' = TRUE
         ELSE UNCHANGED << isRunning, stopped >>
    /\ UNCHANGED << svcHist, now, svcVars, runner, startPc, starts, loopVars, timers, histVars >>

\* ---------------------------------------------------------- ingestion loop
\* a handler that does not await the heartbeat
inFlight_noAwait(off) == 0

\* what the main path holds while `await heartbeat()` is pending: the
\* handler has not returned, so the message is still the current one
inFlight(off) == off

\* an addToRetryQueue that is awaited until its timer has run
afterHandoff_blocking(off) == off

\* what the main path holds after `await this.addToRetryQueue(message, 0)`:
\* the call only arms a timer, so the handler is done with the message
afterHandoff(off) == 0

\* the collaborators' behaviour f during one call with payload p: a payload
\* that is rejected never gets as far as a collaborator that could throw
Throws(p, f) ==
    IF f = "none" \/ ~IsValid(p)
      THEN f = "none" /\ UNCHANGED faults
      ELSE faults < MaxFaults /\ faults' = faults + 1

\* a handler whose catch block throws the error on
returnsNormally_rethrow(ok) == ok

\* the try/catch of eachMessage, of eachBatch's loop body and of the retry
\* callback: whether the code after it is reached, given whether the
\* attempt succeeded; the catch block ends by arming a timer or dropping
returnsNormally(ok) == TRUE

\* a resolveOffset that forgets the offsets resolved before
resolveOffset_forgetful(rs, off) == {off}

\* eachBatch: resolveOffset(message.offset) marks the message as processed
resolveOffset(rs, off) == rs \cup {off}

SetSvc(s) ==
    /\ cache' = s.cache
    /\ hits' = s.hits
    /\ misses' = s.misses
    /\ store' = s.store

\* the try block of eachMessage / eachBatch up to the await of heartbeat(),
\* and its catch block, for the next message of the partition
MainAttempt(p, f, inBatch) ==
    LET off == delivered + 1
        r   == processMessage(Svc, p, now, f)
        ch0 == ChainBegin(chain, off, p)
        ts1 == addToRetryQueue(timers, off, 0, now)
    IN  /\ Throws(p, f)
        /\ delivered' = off
        /\ msgs' = [msgs EXCEPT ![off] = p]
        /\ SetSvc(r.svc)
        /\ RecordHistory(r, p, off)
        /\ IF r.ok
             THEN /\ mainCur' = inFlight(off)
                  /\ resolved' = IF inBatch THEN resolveOffset(resolved, off) ELSE resolved
                  /\ chain' = [ch0 EXCEPT ![off].last = r.violations]
                  /\ UNCHANGED timers
             ELSE /\ IF returnsNormally(FALSE)
                       THEN /\ mainCur' = afterHandoff(off)
                            /\ timers' = ts1
                            /\ chain' = ChainFail(ch0, off, timers, ts1, p)
                       ELSE /\ mainCur' = off
                            /\ chain' = ChainEscape(ch0, off)
                            /\ UNCHANGED timers
                  /\ UNCHANGED resolved

\* eachMessage: the source hands over the next message
Deliver(p, f) ==
    /\ mode = "message"
    /\ runner = "on"
    /\ mainCur = 0
    /\ delivered < MaxDeliveries
    /\ now <= MaxTicks * BaseDelayMs
    /\ MainAttempt(p, f, FALSE)
    /\ UNCHANGED << svcHist, now, lifeVars, mode, batchLeft >>

\* the source fetched a batch of n messages and calls eachBatch
FetchBatch(n) ==
    /\ mode = "batch"
    /\ runner = "on"
    /\ mainCur = 0
    /\ batchLeft = 0
    /\ now <= MaxTicks * BaseDelayMs
    /\ n \in 1 .. (MaxDeliveries - delivered)
    /\ batchLeft' = n
    /\ UNCHANGED << svcHist, now, svcVars, lifeVars, mode, delivered, msgs, mainCur,
                    resolved, timers, histVars >>

\* a stop check that looks at isRunning() only
shouldBreak_ignoreStale(running, stale) == ~running

\* eachBatch: if (!isRunning() || isStale()) break
shouldBreak(running, stale) == ~running \/ stale

\* eachBatch: one turn of the for loop; stale is what isStale() returns
BatchNext(p, f, stale) ==
    /\ mode = "batch"
    /\ batchLeft > 0
    /\ mainCur = 0
    /\ IF shouldBreak(runner = "on", stale)
         THEN /\ batchLeft' = 0
              /\ UNCHANGED << svcVars, delivered, msgs, mainCur, resolved, timers,
                              histVars >>
         ELSE /\ batchLeft' = batchLeft - 1
              /\ MainAttempt(p, f, TRUE)
    /\ UNCHANGED << svcHist, now, lifeVars, mode >>

\* the await of heartbeat() settles for the message in flight; a rejection
\* lands in the catch block of the handler
Heartbeat(ok) ==
    /\ mainCur # 0
    /\ chain[mainCur].status = "Pending"
    /\ IF ok
         THEN /\ mainCur' = 0
              /\ chain' = ChainSucceed(chain, mainCur, chain[mainCur].last)
              /\ UNCHANGED << timers, faults >>
         ELSE LET ts1 == addToRetryQueue(timers, mainCur, 0, now)
              IN  /\ faults < MaxFaults
                  /\ faults' = faults + 1
                  /\ IF returnsNormally(FALSE)
                       THEN /\ mainCur' = afterHandoff(mainCur)
                            /\ timers' = ts1
                            /\ chain' = ChainFail(chain, mainCur, timers, ts1,
                                                  msgs[mainCur])
                       ELSE /\ chain' = ChainEscape(chain, mainCur)
                            /\ UNCHANGED << mainCur, timers >>
    /\ UNCHANGED << svcHist, now, svcVars, lifeVars, mode, delivered, msgs, batchLeft, resolved,
                    recOf, evals >>

\* -------------------------------------------------------- retry coordinator
\* a timer that is never run
Due_never(t) == t.scheduledAt + t.delay < t.scheduledAt

\* setTimeout runs the callback once its delay has passed
Due(t) == t.scheduledAt + t.delay <= now

\* the setTimeout callback of addToRetryQueue
FireTimer(t, f) ==
    /\ t \in timers
    /\ Due(t)
    /\ LET off == t.offset
           r   == processMessage(Svc, msgs[off], now, f)
           ch0 == ChainRetry(chain, off, now - t.scheduledAt)
           ts1 == addToRetryQueue(timers \ {t}, off, t.retryCount + 1, now)
       IN  /\ Throws(msgs[off], f)
           /\ SetSvc(r.svc)
           /\ RecordHistory(r, msgs[off], off)
           /\ IF r.ok
                THEN /\ timers' = timers \ {t}
                     /\ chain' = ChainSucceed(ch0, off, r.violations)
                ELSE IF returnsNormally(FALSE)
                       THEN /\ timers' = ts1
                            /\ chain' = ChainFail(ch0, off, timers \ {t}, ts1, msgs[off])
                       ELSE /\ timers' = timers \ {t}
                            /\ chain' = ChainEscape(ch0, off)
    /\ UNCHANGED << svcHist, now, lifeVars, loopVars >>

\* ------------------------------------------------------------- environment
\* time passes; a due timer runs before the clock moves on, and the clock
\* stops once the source is done and no timer waits for a later instant
Tick ==
    /\ \A t \in timers : ~Due(t)
    /\ \/ now < MaxTicks * BaseDelayMs
       \/ \E t \in timers : now < t.scheduledAt + t.delay
    /\ now' = now + BaseDelayMs
    /\ UNCHANGED << svcHist, svcVars, lifeVars, loopVars, timers, histVars >>

\* ------------------------------------------------------------------- Next
DeliverAny == \E p \in Payloads, f \in Faults : Deliver(p, f)
BatchAny ==
    \/ \E n \in 1 .. MaxDeliveries : FetchBatch(n)
    \/ \E p \in Payloads, f \in Faults, stale \in BOOLEAN : BatchNext(p, f, stale)
FireAny == \E t \in timers, f \in Faults : FireTimer(t, f)

\* the ingestion loop and the retry coordinator of a consumer that is started
Next ==
    \/ \E c \in {1} : StartCall(c)
    \/ \E c \in {1}, ok \in BOOLEAN : ConnectDone(c, ok)
    \/ \E c \in {1}, ok \in BOOLEAN : RunDone(c, ok)
    \/ DeliverAny
    \/ BatchAny
    \/ \E ok \in BOOLEAN : Heartbeat(ok)
    \/ FireAny
    \/ Tick

Spec == Init /\ [][Next]_vars

\* timers fire and time passes
FairSpec == Spec /\ WF_vars(Tick) /\ WF_vars(FireAny)

\* the same consumer, which may also be stopped
StopNext ==
    \/ Next
    \/ StopCall
    \/ \E ok \in BOOLEAN : DisconnectDone(ok)

StopSpec == Init /\ [][StopNext]_vars

\* ------------------------------------------------------ lifecycle alone
\* start() calls that go on to connect in one behaviour of the lifecycle
MaxLifeStarts == 3

\* start() called by c
LifeStart(c) == StartWithin(c, MaxLifeStarts)

\* start() and stop() called by two callers, in any order and overlap
LifeNext ==
    \/ \E c \in Callers : LifeStart(c)
    \/ \E c \in Callers, ok \in BOOLEAN : ConnectDone(c, ok)
    \/ \E c \in Callers, ok \in BOOLEAN : RunDone(c, ok)
    \/ StopCall
    \/ \E ok \in BOOLEAN : DisconnectDone(ok)

LifeSpec == Init /\ [][LifeNext]_vars

\* ----------------------------------------------------- direct service calls
\* the service called directly, as the routes and the tests call it, with
\* the clock moving past the window
\* evaluations and cache clears in one behaviour
MaxLog == 3
\* the instants (ms) at which calls are made: 1 ms, 5 s, just under 10 s,
\* exactly 10 s and just over 10 s apart
Instants == {0, 1, 5000, 10000, 10001, 20002}
\* event times a payload may state (ms)
EventTimes == {0, 20000}

Rules == {"HIGH_AMOUNT_NON_USA", "ROUND_AMOUNT", "RAPID_TRANSACTIONS"}

\* the rule names a caller may ask for: the three rules and one no rule has
QueryRules == Rules \cup {"UNKNOWN_RULE"}

\* the transactions handed to processTransaction
SvcPayloads ==
    { [d EXCEPT !.timestamp = ts] :
        d \in { Tx("t0", "u1", 0 - 100, USA),
                Tx("t1", "u1", 6000, Nigeria),
                Tx("t2", "u1", 1234, USA),
                Tx("t3", "u2", 1234, USA) },
        ts \in EventTimes }

\* what processTransaction hands back: its result, or the error it throws
ProcessReply(r, d) ==
    IF r.ok
      THEN [op |-> "processTransaction", isSuspicious |-> Len(r.violations) > 0,
            violations |-> r.violations,
            transaction |-> [transactionId |-> d.transactionId, userId |-> d.userId,
                             timestamp |-> d.timestamp]]
      ELSE [op |-> "processTransaction", error |-> r.error]

\* processTransaction(d) called at the current instant
ProcessCall(d, f) ==
    LET r == processTransaction(Svc, d, now, f)
    IN  /\ Len(log) < MaxLog
        /\ SetSvc(r.svc)
        /\ log' = IF Evaluated(r)
                    THEN Append(log, [kind |-> "eval", userId |-> d.userId,
                                      transactionId |-> d.transactionId, at |-> now,
                                      violations |-> r.violations])
                    ELSE log
        /\ reply' = ProcessReply(r, d)
        /\ UNCHANGED << now, lifeVars, loopVars, timers, histVars, data >>

\* getAllFraudulentTransactions
getAllFraudulentTransactions(st) == st

\* a query by user that returns the first match only
getFraudulentTransactionsByUserId_first(st, userId) ==
    LET all == SelectSeq(st, LAMBDA transaction : transaction.userId = userId)
    IN  IF all = << >> THEN all ELSE << Head(all) >>

\* getFraudulentTransactionsByUserId
getFraudulentTransactionsByUserId(st, userId) ==
    SelectSeq(st, LAMBDA transaction : transaction.userId = userId)

\* a query by rule that looks at the first violation of a record only
getFraudulentTransactionsByRule_firstViolation(st, rule) ==
    SelectSeq(st, LAMBDA transaction : transaction.violations[1].rule = rule)

\* getFraudulentTransactionsByRule
getFraudulentTransactionsByRule(st, rule) ==
    SelectSeq(st, LAMBDA transaction :
                    \E i \in DOMAIN transaction.violations :
                        transaction.violations[i].rule = rule)

\* the (record, violation) positions of the store
ViolationSlots(st) ==
    UNION { { << i, j >> : j \in DOMAIN st[i].violations } : i \in DOMAIN st }

\* a getStats whose ratio is that of the misses
getStats_missRatio(s) ==
    LET slots == ViolationSlots(s.store)
        seen  == { s.store[x[1]].violations[x[2]].rule : x \in slots }
    IN  [totalFraudulentTransactions |-> Len(s.store),
         ruleBreakdown |->
            [rule \in seen |->
                Cardinality({ x \in slots : s.store[x[1]].violations[x[2]].rule = rule })],
         cacheStats |-> [hits |-> s.hits, misses |-> s.misses],
         cacheHitRatio |-> IF s.hits + s.misses = 0 THEN << 0, 1 >>
                           ELSE << s.misses, s.hits + s.misses >>]

\* a getStats that counts each record under its first violation only
getStats_firstViolationOnly(s) ==
    LET slots == { x \in ViolationSlots(s.store) : x[2] = 1 }
        seen  == { s.store[x[1]].violations[x[2]].rule : x \in slots }
    IN  [totalFraudulentTransactions |-> Len(s.store),
         ruleBreakdown |->
            [rule \in seen |->
                Cardinality({ x \in slots : s.store[x[1]].violations[x[2]].rule = rule })],
         cacheStats |-> [hits |-> s.hits, misses |-> s.misses],
         cacheHitRatio |-> IF s.hits + s.misses = 0 THEN << 0, 1 >>
                           ELSE << s.hits, s.hits + s.misses >>]

\* getStats; the ratio hits / (hits + misses) || 0 is kept as a fraction
getStats(s) ==
    LET slots == ViolationSlots(s.store)
        seen  == { s.store[x[1]].violations[x[2]].rule : x \in slots }
    IN  [totalFraudulentTransactions |-> Len(s.store),
         ruleBreakdown |->
            [rule \in seen |->
                Cardinality({ x \in slots : s.store[x[1]].violations[x[2]].rule = rule })],
         cacheStats |-> [hits |-> s.hits, misses |-> s.misses],
         cacheHitRatio |-> IF s.hits + s.misses = 0 THEN << 0, 1 >>
                           ELSE << s.hits, s.hits + s.misses >>]

\* a read that the cache counts as a lookup that missed
readOnly_countsLookup(s) == [s EXCEPT !.misses = @ + 1]

\* the service after one of its read methods: they filter, count and return,
\* and assign to no field of the service or of the cache
readOnly(s) == s

\* a read method is called and answers q
Query(q) ==
    /\ reply' = q
    /\ SetSvc(readOnly(Svc))
    /\ UNCHANGED << now, lifeVars, loopVars, timers, histVars, log, data >>

GetAll == Query([op |-> "getAll", data |-> getAllFraudulentTransactions(store)])

GetByUserId(u) ==
    Query([op |-> "getByUserId", userId |-> u,
           data |-> getFraudulentTransactionsByUserId(store, u)])

GetByRule(rule) ==
    Query([op |-> "getByRule", rule |-> rule,
           data |-> getFraudulentTransactionsByRule(store, rule)])

GetStats == Query([op |-> "getStats", stats |-> getStats(Svc)])

\* a flush that resets the statistics and keeps the keys
flushAll_statsOnly(s) == [s EXCEPT !.hits = 0, !.misses = 0]

\* node-cache flushAll: drops every key and resets the statistics
flushAll(s) == [s EXCEPT !.cache = [u \in Users |-> NoEntry], !.hits = 0, !.misses = 0]

\* clearCache
ClearCache ==
    /\ Len(log) < MaxLog
    /\ SetSvc(flushAll(Svc))
    /\ log' = Append(log, [kind |-> "clear", at |-> now])
    /\ reply' = [op |-> "clearCache"]
    /\ UNCHANGED << now, lifeVars, loopVars, timers, histVars, data >>

\* node-cache's periodic check deletes the keys whose ttl has passed
Sweep ==
    /\ \E u \in Users : cache[u].present /\ ~CacheAlive(cache, u, now)
    /\ cache' = [u \in Users |-> IF CacheAlive(cache, u, now) THEN cache[u] ELSE NoEntry]
    /\ UNCHANGED << now, hits, misses, store, lifeVars, loopVars, timers, histVars,
                    svcHist >>

\* time passes between two calls
Advance(t) ==
    /\ now < t
    /\ now' = t
    /\ UNCHANGED << svcVars, lifeVars, loopVars, timers, histVars, svcHist >>

SvcInit == Init /\ mode = "message"

SvcNext ==
    \/ \E d \in SvcPayloads, f \in Faults : ProcessCall(d, f)
    \/ GetAll
    \/ \E u \in Users : GetByUserId(u)
    \/ \E rule \in QueryRules : GetByRule(rule)
    \/ GetStats
    \/ ClearCache
    \/ Sweep
    \/ \E t \in Instants : Advance(t)

SvcSpec == SvcInit /\ [][SvcNext]_vars

\* -------------------------------------------- the Transaction model alone
\* the records handed to Transaction.validate: any subset of the fields
\* present, with values of the right and of the wrong kind
TxInputs ==
    { [wellFormed |-> TRUE, present |-> ps, transactionId |-> id, userId |-> "u1",
       amount |-> amt, amountIsNumber |-> isNum, location |-> loc,
       locationIsString |-> isStr, timestampParses |-> ts[1],
       timestampTruthy |-> ts[2], timestamp |-> 0] :
        ps \in SUBSET RequiredFields,
        id \in {"t1", ""},
        amt \in {0 - 100, 0, 1234, 5000, 6000, 10000},
        isNum \in BOOLEAN,
        loc \in {USA, Nigeria, << >>, << " ", "\t" >>, << "u", "s", "a" >>},
        isStr \in BOOLEAN,
        ts \in BOOLEAN \X BOOLEAN }

\* Transaction.validate(data) is called
Validate ==
    /\ reply' = [op |-> "validate", error |-> validate(data)]
    /\ UNCHANGED << now, svcVars, lifeVars, loopVars, timers, histVars, log, data >>

\* new Transaction(data).checkFraudRules() is called on a validated record
CheckRules ==
    /\ validate(data) = NoError
    /\ reply' = [op |-> "checkFraudRules", violations |-> checkFraudRules(data)]
    /\ UNCHANGED << now, svcVars, lifeVars, loopVars, timers, histVars, log, data >>

TxInit == Constructed /\ mode = "message" /\ data \in TxInputs

TxNext == Validate \/ CheckRules

TxSpec == TxInit /\ [][TxNext]_vars

\* ------------------------------------------------------------ claim helpers
\* the evaluations of direct calls, in call order
EvalLog == SelectSeq(log, LAMBDA e : e.kind = "eval")

\* the RAPID_TRANSACTIONS violations of a violation list
RapidIn(v) == SelectSeq(v, LAMBDA x : x.rule = "RAPID_TRANSACTIONS")

\* the earlier evaluations of the same user that log[i] has to count: less
\* than 10 s before it and no clearCache in between
PriorInWindow(i) ==
    { j \in 1 .. (i - 1) :
        /\ log[j].kind = "eval"
        /\ log[j].userId = log[i].userId
        /\ log[i].at - log[j].at < WindowMs
        /\ \A k \in (j + 1) .. (i - 1) : log[k].kind # "clear" }

\* those that found at least one violation
FlaggedLog == SelectSeq(EvalLog, LAMBDA e : e.violations # << >>)

\* number of Fraud Records appended by evaluations of offset o
RecordsOf(o) == Cardinality({ i \in DOMAIN recOf : recOf[i] = o })

RECURSIVE FlaggedIn(_)
FlaggedIn(us) ==
    IF us = {} THEN 0
    ELSE LET u == CHOOSE x \in us : TRUE
         IN  evals[u].flagged + FlaggedIn(us \ {u})

Backoff == << 1000, 2000, 4000 >>

Terminal == {"Succeeded", "Exhausted"}

\* the steps of the per-message state machine
StatusSteps ==
    { << "None", "Pending" >>, << "None", "Scheduled" >>,
      << "Pending", "Succeeded" >>, << "Pending", "Scheduled" >>,
      << "Scheduled", "Scheduled" >>, << "Scheduled", "Succeeded" >>,
      << "Scheduled", "Exhausted" >> }

\* ------------------------------------------------------------------ claims
\* C1: a message whose attempt fails with MalformedMessage or ValidationError
\* never gets a retry task scheduled.
C1_PermanentNeverRetried ==
    \A o \in Offsets :
        (chain[o].status # "None" /\ ~IsValid(msgs[o]))
            => (chain[o].delays = << >> /\ \A t \in timers : t.offset # o)

\* C2: a message whose main attempt failed transiently and whose retry then
\* succeeded has as many Fraud Records as an immediate success would have
\* left (one if flagged, none if clean) and the same violation list.
C2_RetryLikeImmediateSuccess ==
    \A o \in Offsets :
        (chain[o].status = "Succeeded" /\ chain[o].transient)
            => /\ RecordsOf(o) = (IF chain[o].last # << >> THEN 1 ELSE 0)
               /\ chain[o].last = chain[o].would

\* C3: a message that failed on every attempt and was dropped as exhausted
\* has added no Fraud Record to the Store.
C3_ExhaustedAddsNoRecord ==
    \A o \in Offsets : chain[o].status = "Exhausted" => RecordsOf(o) = 0

\* C4: at most 3 retries are scheduled per message, with attempt counters
\* 0, 1, 2; a message that reached the limit is dropped: it has no timer and
\* is not processed again.
C4_AtMostThreeRetries ==
    /\ \A t \in timers : t.retryCount \in 0 .. 2
    /\ \A o \in Offsets :
        /\ Len(chain[o].delays) <= 3
        /\ Len(chain[o].waits) <= 3
        /\ Cardinality({ t \in timers : t.offset = o }) <= 1
        /\ chain[o].status = "Exhausted"
             => /\ Len(chain[o].delays) = 3
                /\ Len(chain[o].waits) = 3
                /\ \A t \in timers : t.offset # o
                /\ mainCur # o

C4_Witness == \E o \in Offsets : chain[o].status = "Exhausted"

C6_ExponentialBackoff ==
    /\ \A t \in timers :
        /\ t.retryCount \in 0 .. 2
        /\ t.delay = Backoff[t.retryCount + 1]
        /\ now <= t.scheduledAt + t.delay
    /\ \A o \in Offsets :
        /\ Len(chain[o].delays) <= 3
        /\ Len(chain[o].waits) <= Len(chain[o].delays)
        /\ \A i \in 1 .. Len(chain[o].delays) :
            /\ chain[o].delays[i] = Backoff[i]
            /\ i > 1 => chain[o].delays[i] = 2 * chain[o].delays[i - 1]
        /\ \A i \in 1 .. Len(chain[o].waits) : chain[o].waits[i] = chain[o].delays[i]

C6_Witness == \E o \in Offsets : chain[o].waits = Backoff

\* C7: handing a message to the retry coordinator does not hold the main
\* path: the handler is done with a message whose retry is pending, and
\* with retries pending the loop can take the next message.
C7_RetriesNeverBlock ==
    /\ \A t \in timers : t.offset # mainCur
    /\ (/\ timers # {}
        /\ mainCur = 0
        /\ runner = "on"
        /\ delivered < MaxDeliveries
        /\ now <= MaxTicks * BaseDelayMs)
         => IF mode = "message" THEN ENABLED DeliverAny ELSE ENABLED BatchAny

C7_Witness ==
    \E t \in timers : delivered > t.offset /\ chain[delivered].status = "Succeeded"

\* C8: once stop() has completed, a retry callback that fires changes
\* neither the Store nor the Activity Window and schedules nothing.
C8_RetryNoOpAfterStop ==
    [][(stopped /\ ~isRunning /\ \E t \in timers : t \notin timers')
         => (/\ store' = store
             /\ cache' = cache
             /\ hits' = hits
             /\ misses' = misses
             /\ timers' \subseteq timers)]_vars

\* C9: no window entry and no Fraud Record is lost under interleaved main
\* path and retry evaluations: while all of a user's k evaluations lie
\* inside 10 s the user's window holds k entries, and the Store holds one
\* record per flagged evaluation.
C9_NoLostUpdate ==
    /\ \A u \in Users :
        (evals[u].n > 0 /\ now - evals[u].first < WindowMs)
            => /\ CacheAlive(cache, u, now)
               /\ Len(cache[u].entries) = evals[u].n
    /\ Len(store) = FlaggedIn(Users)
    /\ Len(recOf) = Len(store)

C9_Witness ==
    /\ evals["u1"].n >= 3
    /\ Len(cache["u1"].entries) = evals["u1"].n
    /\ \E o \in Offsets : chain[o].waits # << >> /\ delivered > o
    /\ \E i, j \in DOMAIN cache["u1"].entries :
         i < j /\ cache["u1"].entries[i].transactionId # cache["u1"].entries[j].transactionId

\* C10: the main path takes the messages in delivery order, one attempt per
\* delivery, and starts the next attempt only when the current one has
\* completed; retries are not ordered against later deliveries.
C10_MainPathInOrder ==
    /\ mainCur \in {0, delivered}
    /\ \A o \in Offsets :
        /\ o <= delivered <=> chain[o].status # "None"
        /\ chain[o].mains = (IF o <= delivered THEN 1 ELSE 0)
        /\ chain[o].status = "Pending" => (o = delivered /\ mainCur = o)

C10_Witness ==
    \E o \in Offsets :
        /\ Len(chain[o].later) >= 2
        /\ chain[o].later[1] = FALSE
        /\ chain[o].later[2] = TRUE

\* C11: in batch mode a message is resolved in the step in which its
\* processMessage call succeeds, hence before the next message of the batch
\* is attempted; a message whose call fails is not resolved by the loop; and
\* no later step, a failure included, takes a resolved offset back.
C11_BatchResolvesPerMessage ==
    [][/\ resolved \subseteq resolved'
       /\ resolved' \ resolved \subseteq {delivered'}
       /\ delivered' = delivered => resolved' = resolved
       /\ delivered' # delivered
            => (delivered' \in resolved' <=> (mode = "batch" /\ mainCur' = delivered'))]_vars

C11_Witness ==
    /\ mode = "batch"
    /\ delivered = 2
    /\ resolved = {1}
    /\ chain[2].status = "Scheduled"
    /\ batchLeft = 0

C13_StopCheckedPerMessage ==
    [][/\ (mode = "batch" /\ runner # "on")
            => /\ delivered' = delivered
               /\ msgs' = msgs
               /\ resolved' = resolved
               /\ \A t \in timers' \ timers : chain[t.offset].status # "None"
       /\ \A p \in Payloads, f \in Faults :
            BatchNext(p, f, TRUE)
                => /\ batchLeft' = 0
                   /\ delivered' = delivered
                   /\ resolved' = resolved
                   /\ timers' = timers
                   /\ store' = store
                   /\ cache' = cache]_vars

C13_Witness ==
    /\ mode = "batch"
    /\ runner = "off"
    /\ stopPc = "disconnecting"
    /\ delivered = 1
    /\ batchLeft = 1
    /\ mainCur = 0

\* C14: the Store is append-only: every step (processing, queries, getStats,
\* clearCache, cache expiry, time) leaves the old Store as a prefix of the
\* new one; the Store lists the flagged evaluations in the order they were
\* made; and getAllFraudulentTransactions answers exactly the Store.
C14_StoreAppendOnly ==
    /\ [][/\ Len(store') >= Len(store)
           /\ SubSeq(store', 1, Len(store)) = store]_vars
    /\ [](/\ Len(store) = Len(FlaggedLog)
           /\ \A i \in DOMAIN store :
                /\ store[i].transactionId = FlaggedLog[i].transactionId
                /\ store[i].violations = FlaggedLog[i].violations
           /\ reply.op = "getAll" => reply.data = store)

C14_Witness ==
    /\ Len(store) = 2
    /\ store[1].transactionId # store[2].transactionId
    /\ \E i \in DOMAIN log : log[i].kind = "clear"
    /\ reply.op = "getAll"

\* C15: an evaluation of a validated transaction appends exactly one Fraud
\* Record, of that transaction and with its violations, when the violation
\* list is non-empty, and appends nothing when it is empty; a call that
\* returns reports isSuspicious exactly when the list is non-empty; a step
\* without an evaluation appends nothing; every record has a violation.
C15_OneRecordIffFlagged ==
    /\ [][IF Len(log') > Len(log) /\ log'[Len(log')].kind = "eval"
            THEN LET e == log'[Len(log')]
                 IN  /\ reply'.op = "processTransaction"
                     /\ IF e.violations # << >>
                          THEN /\ Len(store') = Len(store) + 1
                               /\ store'[Len(store')].transactionId = e.transactionId
                               /\ store'[Len(store')].violations = e.violations
                               /\ store'[Len(store')].isSuspicious
                          ELSE store' = store
                     /\ "isSuspicious" \in DOMAIN reply'
                          => /\ reply'.violations = e.violations
                             /\ reply'.isSuspicious <=> e.violations # << >>
            ELSE store' = store]_vars
    /\ [](\A i \in DOMAIN store : store[i].violations # << >>)

C15_Witness ==
    /\ reply.op = "processTransaction"
    /\ "isSuspicious" \in DOMAIN reply
    /\ ~reply.isSuspicious
    /\ Len(store) = 1
    /\ Len(log) = 2
    /\ log[1].kind = "eval"
    /\ log[1].violations # << >>
    /\ log[2].kind = "eval"

C17_RapidRule ==
    \A i \in DOMAIN log :
        log[i].kind = "eval"
            => LET rapid == RapidIn(log[i].violations)
                   prior == PriorInWindow(i)
               IN  /\ Len(rapid) = (IF prior # {} THEN 1 ELSE 0)
                   /\ \A r \in DOMAIN rapid :
                        /\ rapid[r].severity = "HIGH"
                        /\ rapid[r].transactionCount = Cardinality(prior) + 1

C17_Witness ==
    /\ Len(log) = 2
    /\ log[1].kind = "eval" /\ log[2].kind = "eval"
    /\ log[1].userId = log[2].userId
    /\ log[2].at - log[1].at = 5000
    /\ log[1].violations = << >>
    /\ log[2].violations = << [rule |-> "RAPID_TRANSACTIONS", severity |-> "HIGH",
                                transactionCount |-> 2] >>

\* C18: an evaluation of a transaction of user u leaves the Activity Window
\* entry of every other user as it was, and a transaction is flagged by the
\* rapid rule only if an earlier transaction of the same user was evaluated:
\* transactions of different users never flag each other.
C18_UsersIndependent ==
    /\ [][(Len(log') > Len(log) /\ log'[Len(log')].kind = "eval")
            => \A u \in Users \ {log'[Len(log')].userId} : cache'[u] = cache[u]]_vars
    /\ [](\A i \in DOMAIN log :
            (log[i].kind = "eval" /\ RapidIn(log[i].violations) # << >>)
                => \E j \in 1 .. (i - 1) :
                        log[j].kind = "eval" /\ log[j].userId = log[i].userId)

C18_Witness ==
    /\ Len(log) = 2
    /\ log[1].kind = "eval" /\ log[2].kind = "eval"
    /\ log[1].userId # log[2].userId
    /\ log[1].at = log[2].at
    /\ RapidIn(log[2].violations) = << >>
    /\ \A u \in Users : cache[u].present /\ Len(cache[u].entries) = 1

\* C19: a transaction evaluated 10 s or more after every earlier evaluation
\* of its user gets no RAPID_TRANSACTIONS violation, so a user whose
\* transactions are spaced more than 10 s apart is never flagged by the
\* rule; and a window never holds an entry that was 10 s old or older when
\* the window was last written.
C19_SpacedNeverRapid ==
    /\ \A i \in DOMAIN log :
        (/\ log[i].kind = "eval"
         /\ \A j \in 1 .. (i - 1) :
                (log[j].kind = "eval" /\ log[j].userId = log[i].userId)
                    => log[i].at - log[j].at >= WindowMs)
            => RapidIn(log[i].violations) = << >>
    /\ \A u \in Users :
        cache[u].present
            => LET es == cache[u].entries
               IN  \A k \in DOMAIN es : es[Len(es)].timestamp - es[k].timestamp < WindowMs

C19_Witness ==
    /\ Len(log) = 3
    /\ \A i \in DOMAIN log :
            log[i].kind = "eval" /\ log[i].userId = "u1" /\ log[i].violations = << >>
    /\ log[1].at = 0 /\ log[2].at = 10000 /\ log[3].at = 20002
    /\ Len(cache["u1"].entries) = 1

\* C20: the rapid rule depends on processing times only: in every state,
\* reached by processing transactions with any event timestamps, evaluating
\* a valid transaction gives the same violation list and the same Activity
\* Window whatever event timestamp it states, and every window entry
\* carries the instant at which its transaction was evaluated.
C20_EventTimeIrrelevant ==
    /\ \A d \in SvcPayloads, ts \in EventTimes :
        validate(d) = NoError
            => LET r1 == processTransaction(Svc, d, now, "none")
                   r2 == processTransaction(Svc, [d EXCEPT !.timestamp = ts], now, "none")
               IN  /\ r1.violations = r2.violations
                   /\ r1.svc.cache = r2.svc.cache
    /\ \A u \in Users :
        \A k \in DOMAIN cache[u].entries :
            \E i \in DOMAIN log :
                /\ log[i].kind = "eval"
                /\ log[i].userId = u
                /\ log[i].transactionId = cache[u].entries[k].transactionId
                /\ log[i].at = cache[u].entries[k].timestamp

C20_Witness ==
    /\ Len(log) = 2
    /\ log[1].kind = "eval" /\ log[2].kind = "eval"
    /\ log[1].at = 0 /\ log[2].at = 5000
    /\ reply.op = "processTransaction"
    /\ "transaction" \in DOMAIN reply
    /\ reply.transaction.timestamp = 20000
    /\ RapidIn(reply.violations) # << >>
    /\ Len(cache[reply.transaction.userId].entries) = 2

\* C21: every evaluation (a call that reaches the rules: the cache is read
\* once), flagged or clean, replaces its user's Activity Window by the
\* entries still younger than 10 s followed by (transactionId, now) of the
\* transaction evaluated, and leaves the other users' windows alone.
C21_WindowUpdatedOnEveryEvaluation ==
    [][hits' + misses' = hits + misses + 1
        => \E u \in Users :
            LET kept == IF CacheAlive(cache, u, now)
                          THEN FilterWindow(cache[u].entries, now) ELSE << >>
                es   == cache'[u].entries
            IN  /\ cache'[u].present
                /\ es # << >>
                /\ es = Append(kept, es[Len(es)])
                /\ es[Len(es)].timestamp = now
                /\ \E d \in SvcPayloads \cup Payloads :
                        d.userId = u /\ d.transactionId = es[Len(es)].transactionId
                /\ \A v \in Users \ {u} : cache'[v] = cache[v]]_vars

C21_Witness ==
    /\ Len(log) = 3
    /\ \A i \in DOMAIN log : log[i].kind = "eval" /\ log[i].userId = "u1"
    /\ log[1].violations = << >>
    /\ log[1].at = 0 /\ log[2].at = 5000 /\ log[3].at = 10000
    /\ cache["u1"].entries = << [transactionId |-> log[2].transactionId, timestamp |-> 5000],
                                [transactionId |-> log[3].transactionId, timestamp |-> 10000] >>

\* the entries a user's window would hold if no key ever expired or was
\* swept: one per evaluation of the user since the last clearCache
HistoryWindow(u) ==
    LET since == { i \in DOMAIN log :
                     /\ log[i].kind = "eval"
                     /\ log[i].userId = u
                     /\ \A k \in (i + 1) .. Len(log) : log[k].kind # "clear" }
        idx   == SelectSeq([i \in DOMAIN log |-> i], LAMBDA i : i \in since)
    IN  [k \in DOMAIN idx |-> [transactionId |-> log[idx[k]].transactionId,
                               timestamp |-> log[idx[k]].at]]

\* C22: in every reachable state, the evaluation of any valid transaction
\* gives the same RAPID_TRANSACTIONS outcome and the same window as it would
\* on a cache from which no key ever expired or was swept, and a key whose
\* ttl has passed holds only entries the filter would drop.
C22_SweepDoesNotChangeOutcome ==
    /\ \A d \in SvcPayloads :
          validate(d) = NoError
            => LET u     == d.userId
                   whole == [cache EXCEPT ![u] = [present |-> TRUE,
                                                   entries |-> HistoryWindow(u),
                                                   exp |-> now]]
                   real  == checkRapidTransactions(Svc, d, now)
                   ideal == checkRapidTransactions([Svc EXCEPT !.cache = whole], d, now)
               IN  /\ real.violation = ideal.violation
                   /\ real.svc.cache[u].entries = ideal.svc.cache[u].entries
    /\ \A u \in Users :
          cache[u].present /\ ~CacheAlive(cache, u, now)
            => FilterWindow(cache[u].entries, now) = << >>

\* u2's key was swept after its ttl and u1 was evaluated again after its
\* own key had expired; no clearCache was called
C22_Witness ==
    /\ Len(log) = 3
    /\ \A i \in DOMAIN log : log[i].kind = "eval"
    /\ log[1].userId = "u1" /\ log[1].at = 0
    /\ log[2].userId = "u2" /\ log[2].at = 10000
    /\ log[3].userId = "u1" /\ log[3].at = 20002
    /\ RapidIn(log[3].violations) = << >>
    /\ cache["u2"] = NoEntry
    /\ Len(cache["u1"].entries) = 1

\* C23: a clearCache step leaves no user with a window entry, sets the hit
\* and miss counters to zero and leaves the store as it was; and an
\* evaluation that is its user's first since a clearCache carries no
\* RAPID_TRANSACTIONS violation, whatever was processed before the clear.
C23_ClearCacheResetsWindows ==
    [][/\ (Len(log') = Len(log) + 1 /\ log'[Len(log')].kind = "clear")
            => /\ \A u \in Users : ~cache'[u].present /\ cache'[u].entries = << >>
               /\ hits' = 0
               /\ misses' = 0
               /\ store' = store
       /\ \A i \in DOMAIN log' :
            (/\ log'[i].kind = "eval"
             /\ \E k \in 1 .. (i - 1) :
                    /\ log'[k].kind = "clear"
                    /\ \A j \in (k + 1) .. (i - 1) :
                          log'[j].kind = "eval" => log'[j].userId # log'[i].userId)
            => RapidIn(log'[i].violations) = << >>]_vars

\* u1 flagged, the cache cleared, u1 evaluated again within 10 s: no
\* RAPID_TRANSACTIONS, one record in the store, one miss counted
C23_Witness ==
    /\ Len(log) = 3
    /\ log[1].kind = "eval" /\ log[1].userId = "u1" /\ log[1].violations # << >>
    /\ log[2].kind = "clear"
    /\ log[3].kind = "eval" /\ log[3].userId = "u1"
    /\ log[3].at - log[1].at < WindowMs
    /\ log[3].violations = << >>
    /\ Len(store) = 1
    /\ hits = 0 /\ misses = 1

\* the place of a rule in the order the rules are checked
RuleRank(rule) ==
    CASE rule = "HIGH_AMOUNT_NON_USA" -> 1
      [] rule = "ROUND_AMOUNT"        -> 2
      [] rule = "RAPID_TRANSACTIONS"  -> 3

HighViolation == [rule |-> "HIGH_AMOUNT_NON_USA", severity |-> "HIGH"]
RoundViolation == [rule |-> "ROUND_AMOUNT", severity |-> "MEDIUM"]

\* C25: checkFraudRules returns HIGH_AMOUNT_NON_USA (HIGH) exactly when
\* amount > 5000 and location is not "USA", and ROUND_AMOUNT (MEDIUM)
\* exactly when amount mod 1000 = 0, and: 6000 in Nigeria gives only
\* HIGH_AMOUNT_NON_USA, 6000 in USA gives none, 5000 in USA gives only
\* ROUND_AMOUNT, 1234 in USA gives none, 10000 in Nigeria gives both.
C25_RulesAndExamples ==
    reply.op = "checkFraudRules"
      => LET v  == reply.violations
             vs == { v[k] : k \in DOMAIN v }
         IN  /\ HighViolation \in vs <=> (data.amount > 5000 /\ data.location # USA)
             /\ RoundViolation \in vs <=> data.amount % 1000 = 0
             /\ (data.amount = 6000 /\ data.location = Nigeria) => v = << HighViolation >>
             /\ (data.amount = 6000 /\ data.location = USA) => v = << >>
             /\ (data.amount = 5000 /\ data.location = USA) => v = << RoundViolation >>
             /\ (data.amount = 1234 /\ data.location = USA) => v = << >>
             /\ (data.amount = 10000 /\ data.location = Nigeria)
                    => v = << HighViolation, RoundViolation >>

\* the required fields a record does not hold
Absent(d) == RequiredFields \ d.present

\* C26: validate of a record that lacks N >= 1 of the required fields
\* throws the one missing-fields error, and the error names every one of
\* the N fields, once each and in the order of the required list.
C26_AllMissingFieldsNamed ==
    (reply.op = "validate" /\ Absent(data) # {})
      => LET named == reply.error.fields
         IN  /\ reply.error.message = "Missing required fields"
             /\ Absent(data) \subseteq { named[k] : k \in DOMAIN named }
             /\ \A k, l \in DOMAIN named : k < l
                    => \E m, n \in DOMAIN required :
                          m < n /\ required[m] = named[k] /\ required[n] = named[l]

\* a record without userId, location and timestamp: the error names the three
C26_Witness ==
    /\ reply.op = "validate"
    /\ Absent(data) = {"userId", "location", "timestamp"}
    /\ reply.error.fields = << "userId", "location", "timestamp" >>

\* the record supplies all five required fields
AllSupplied(d) == d.present = RequiredFields

\* a non-empty transactionId and userId
IdsGiven(d) == d.transactionId # "" /\ d.userId # ""

\* a number greater than zero
AmountValid(d) == d.amountIsNumber /\ d.amount > 0

\* a string with something other than whitespace in it
LocationValid(d) == d.locationIsString /\ trim(d.location) # << >>

\* a non-empty timestamp that parses to an instant
TimestampValid(d) == d.timestampParses /\ d.timestampTruthy

\* C27: a record that supplies all required fields, valid but for an amount
\* that is not a number or is <= 0 (-100, 0), is rejected with the error
\* 'Amount must be a positive number'.
C27_BadAmountRejectedWithAmountError ==
    (/\ reply.op = "validate"
     /\ AllSupplied(data) /\ IdsGiven(data) /\ LocationValid(data) /\ TimestampValid(data)
     /\ ~AmountValid(data))
      => reply.error = [message |-> "Amount must be a positive number", fields |-> << >>]

\* C28: a record that is valid but for a location that is the empty string,
\* or only whitespace, or not a string, is rejected with the error
\* 'Location must be a non-empty string'.
C28_BadLocationRejectedWithLocationError ==
    (/\ reply.op = "validate"
     /\ AllSupplied(data) /\ IdsGiven(data) /\ AmountValid(data) /\ TimestampValid(data)
     /\ ~LocationValid(data))
      => reply.error = [message |-> "Location must be a non-empty string", fields |-> << >>]

\* C29: a record that is valid but for a timestamp that does not parse is
\* rejected with the error 'Invalid timestamp format', and a record with
\* all five fields, a positive numeric amount, a non-blank location and a
\* timestamp that parses is accepted.
C29_TimestampRejectedElseAccepted ==
    reply.op = "validate"
      => /\ (/\ AllSupplied(data) /\ IdsGiven(data) /\ AmountValid(data)
             /\ LocationValid(data) /\ ~data.timestampParses)
                => reply.error = [message |-> "Invalid timestamp format", fields |-> << >>]
         /\ (/\ AllSupplied(data) /\ AmountValid(data) /\ LocationValid(data)
             /\ data.timestampParses)
                => reply.error = NoError

QueryOps == {"getAll", "getByUserId", "getByRule", "getStats"}

\* C30: a call of getStats, getAllFraudulentTransactions,
\* getFraudulentTransactionsByUserId or getFraudulentTransactionsByRule
\* leaves the store, every user's window entry and the hit and miss
\* counters as they were.
C30_QueriesChangeNothing ==
    [][(reply' # reply /\ reply'.op \in QueryOps)
        => /\ store' = store
           /\ cache' = cache
           /\ hits' = hits
           /\ misses' = misses]_vars

\* getStats answered on a service that holds a record, a window and
\* counted lookups, all still there after the answer
C30_Witness ==
    /\ reply.op = "getStats"
    /\ reply.stats.totalFraudulentTransactions = 2
    /\ Len(store) = 2
    /\ reply.stats.cacheStats = [hits |-> 1, misses |-> 1]
    /\ hits = 1 /\ misses = 1
    /\ \E u \in Users : Len(cache[u].entries) = 2

\* the store records that hold a violation of a rule
RecordsWithRule(rule) ==
    { i \in DOMAIN store : \E j \in DOMAIN store[i].violations :
                              store[i].violations[j].rule = rule }

\* C31: the answer of getStats has totalFraudulentTransactions equal to the
\* number of records in the store and, for each rule, a ruleBreakdown count
\* equal to the number of records that hold a violation of that rule (a
\* rule no record holds has no count).
C31_StatsCountStore ==
    reply.op = "getStats"
      => LET rb == reply.stats.ruleBreakdown
         IN  /\ reply.stats.totalFraudulentTransactions = Len(store)
             /\ DOMAIN rb = { rule \in Rules : RecordsWithRule(rule) # {} }
             /\ \A rule \in DOMAIN rb : rb[rule] = Cardinality(RecordsWithRule(rule))

\* two records, one of them with three violations: the counts add up to
\* more than the total
C31_Witness ==
    /\ reply.op = "getStats"
    /\ reply.stats.totalFraudulentTransactions = 2
    /\ DOMAIN reply.stats.ruleBreakdown = Rules
    /\ reply.stats.ruleBreakdown["HIGH_AMOUNT_NON_USA"] = 1
    /\ reply.stats.ruleBreakdown["ROUND_AMOUNT"] = 1
    /\ reply.stats.ruleBreakdown["RAPID_TRANSACTIONS"] = 2

\* the log entries after the last clearCache
SinceClear ==
    SelectSeq([i \in DOMAIN log |-> i],
              LAMBDA i : \A k \in i .. Len(log) : log[k].kind # "clear")

\* since the cache was last empty, one user alone was evaluated, n >= 1
\* times, all within one window
SingleUserRun ==
    LET run == SinceClear
    IN  /\ run # << >>
        /\ \A k \in DOMAIN run : log[run[k]].userId = log[run[1]].userId
        /\ log[run[Len(run)]].at - log[run[1]].at < WindowMs

\* C32: the cacheHitRatio getStats answers is hits / (hits + misses), and 0
\* when no lookup was made; after n >= 1 lookups of a single user, all in
\* one window and starting from an empty cache, there are 1 miss and n - 1
\* hits, and one more such lookup makes the ratio larger.
C32_HitRatio ==
    [][/\ reply'.op = "getStats"
            => LET ratio == reply'.stats.cacheHitRatio
               IN  IF hits' + misses' = 0
                     THEN ratio[1] = 0 /\ ratio[2] = 1
                     ELSE ratio[2] > 0 /\ ratio[1] * (hits' + misses') = hits' * ratio[2]
       /\ SingleUserRun' => (misses' = 1 /\ hits' = Len(SinceClear') - 1)
       /\ (SingleUserRun /\ SingleUserRun' /\ Len(log') > Len(log))
            => hits' * (hits + misses) > hits * (hits' + misses')]_vars

\* u1 evaluated three times within 10 s from an empty cache: getStats
\* answers 2 / 3
C32_Witness ==
    /\ reply.op = "getStats"
    /\ Len(log) = 3
    /\ SingleUserRun
    /\ reply.stats.cacheHitRatio = << 2, 3 >>
    /\ hits = 2 /\ misses = 1

\* the store records at the positions S, in store order
Picked(S) ==
    [k \in 1 .. Cardinality(S) |->
        store[CHOOSE i \in S : Cardinality({ j \in S : j <= i }) = k]]

\* C33: the answer of getFraudulentTransactionsByUserId(u) is the store
\* records whose userId is u, all of them and no other, in store order;
\* it is empty when the user has none.
C33_ByUserIdExact ==
    reply.op = "getByUserId"
      => reply.data = Picked({ i \in DOMAIN store : store[i].userId = reply.userId })

\* the store holds a record of u1 and then one of u2, and the query for u2
\* answers the second alone
C33_Witness ==
    /\ reply.op = "getByUserId"
    /\ reply.userId = "u2"
    /\ Len(store) = 2
    /\ store[1].userId = "u1"
    /\ reply.data = << store[2] >>

\* C34: the answer of getFraudulentTransactionsByRule(r) is the store
\* records that hold a violation of rule r, all of them and no other, in
\* store order, so a record with several violations is answered for each of
\* its rules; a name no rule has gets the empty list.
C34_ByRuleExact ==
    reply.op = "getByRule"
      => /\ reply.data = Picked(RecordsWithRule(reply.rule))
         /\ reply.rule \notin Rules => reply.data = << >>

\* a record with HIGH_AMOUNT_NON_USA first and ROUND_AMOUNT second is
\* answered for ROUND_AMOUNT, the record after it is not
C34_Witness ==
    /\ reply.op = "getByRule"
    /\ reply.rule = "ROUND_AMOUNT"
    /\ Len(store) = 2
    /\ store[1].violations[1].rule = "HIGH_AMOUNT_NON_USA"
    /\ reply.data = << store[1] >>

\* one record for each way validate rejects: a field missing, an amount
\* that is not positive, a blank location, a timestamp that does not parse
RejectSamples ==
    { [Tx("r1", "u1", 6000, Nigeria) EXCEPT !.present = RequiredFields \ {"location"}],
      Tx("r2", "u1", 0 - 100, USA),
      Tx("r3", "u1", 6000, << " " >>),
      [Tx("r4", "u1", 6000, Nigeria) EXCEPT !.timestampParses = FALSE] }

\* C35 (the call): in every reachable state, processTransaction of a record
\* validate rejects throws the validation error and leaves the store, every
\* window and the hit and miss counters as they were.
C35_RejectionChangesNothing ==
    \A d \in RejectSamples \cup { p \in Payloads : p.wellFormed /\ validate(p) # NoError },
       f \in Faults :
        processTransaction(Svc, d, now, f)
            = [svc |-> Svc, ok |-> FALSE, violations |-> << >>, error |-> "ValidationError"]

\* C35 (rejected messages): a delivered message that does not decode or
\* validate has no record in the store
C35_RejectedNeverVisible ==
    \A o \in Offsets :
        (chain[o].status # "None" /\ ~IsValid(msgs[o])) => RecordsOf(o) = 0

\* C35 (dropped messages): a message dropped after its last retry has no
\* record in the store
C35_DroppedNeverVisible ==
    \A o \in Offsets : chain[o].status = "Exhausted" => Len(SelectSeq(recOf, LAMBDA x : x = o)) = 0

\* C35: a rejected record changes nothing and its error reaches the caller,
\* and a message that was rejected, or dropped, has no record in the store
\* for the queries to answer.
C35_RejectedOrDroppedNeverVisible ==
    /\ C35_RejectionChangesNothing
    /\ C35_RejectedNeverVisible
    /\ C35_DroppedNeverVisible

\* processMessage returned for offset o on the main path (and, in
\* eachBatch, resolveOffset was called for it)
MainPathDone(o) ==
    /\ chain[o].status \in {"Pending", "Succeeded"}
    /\ chain[o].delays = << >>
    /\ mode = "batch" => o \in resolved

\* C36: a message whose main-path processing completed successfully (in
\* batch mode: whose offset is resolved) is never handed to the retry
\* queue: no timer is armed for it and it is not attempted again.
C36_SuccessNeverRetried ==
    [][\A o \in Offsets :
        MainPathDone(o)
          => /\ chain'[o].status \in {"Pending", "Succeeded"}
             /\ chain'[o].delays = << >>
             /\ chain'[o].waits = << >>
             /\ \A t \in timers' : t.offset # o]_vars

\* the pending timers of offset o
TimersOf(ts, o) == { t \in ts : t.offset = o }

\* C37: a message never has two retry timers pending, and a timer armed
\* for it carries the attempt counter 0 if it is the first and otherwise one
\* more than the timer whose retry has just failed, which is pending no more.
C37_OneTimerCountingUp ==
    [][\A o \in Offsets :
        /\ Cardinality(TimersOf(timers', o)) <= 1
        /\ \A t \in TimersOf(timers', o) \ timers :
              /\ t.retryCount = Len(chain[o].delays)
              /\ IF t.retryCount = 0
                   THEN TimersOf(timers, o) = {}
                   ELSE \E old \in TimersOf(timers, o) \ timers' :
                          t.retryCount = old.retryCount + 1]_vars

\* the third timer of a message is pending, with attempt counter 2, after
\* timers with counters 0 and 1 ran and failed
C37_Witness ==
    \E o \in Offsets :
        /\ chain[o].delays = << 1000, 2000, 4000 >>
        /\ Len(chain[o].waits) = 2
        /\ \E t \in timers : t.offset = o /\ t.retryCount = 2
        /\ Cardinality(TimersOf(timers, o)) = 1

\* the step set user u's cache key
KeySet(u) == cache'[u].present /\ cache'[u] # cache[u]

\* the step is a clearCache
ClearStep == Len(log') = Len(log) + 1 /\ log'[Len(log')].kind = "clear"

\* C38: a step that is not a clearCache counts one lookup exactly when it
\* is an evaluation (it sets one user's key) and none otherwise: a call that
\* returns a result counts one, a call that throws the validation error
\* counts none; the lookup is a hit exactly when the user's key was there
\* and not expired; and hits + misses is the number of evaluations since
\* the last clearCache.
C38_OneLookupPerEvaluation ==
    [][/\ ~ClearStep
            => LET lookups == (hits' + misses') - (hits + misses)
               IN  /\ hits' >= hits /\ misses' >= misses
                   /\ lookups = Cardinality({ u \in Users : KeySet(u) })
                   /\ lookups \in {0, 1}
                   /\ \A u \in Users :
                          KeySet(u) => (hits' = hits + 1 <=> CacheAlive(cache, u, now))
                   /\ (reply' # reply /\ reply'.op = "processTransaction")
                        => IF "error" \in DOMAIN reply'
                             THEN reply'.error = "ValidationError" => lookups = 0
                             ELSE lookups = 1
       /\ hits' + misses' = Len(SinceClear')]_vars

\* one evaluation that missed, one that hit, and then a rejected record
\* that counted nothing
C38_Witness ==
    /\ Len(log) = 2
    /\ \A i \in DOMAIN log : log[i].kind = "eval"
    /\ hits = 1 /\ misses = 1
    /\ reply.op = "processTransaction"
    /\ "error" \in DOMAIN reply
    /\ reply.error = "ValidationError"

\* the start() calls that are between their isRunning check and their return
InStart == { c \in Callers : startPc[c] # "idle" }

\* C39: a start() goes on to connect only when no other start() is in
\* progress and none has succeeded since the last stop(), so no two
\* start() calls are ever connecting or running the consumer together.
C39_StartsNeverOverlap ==
    [][/\ \A c \in Callers :
            (startPc[c] = "idle" /\ startPc'[c] = "connecting")
              => (InStart = {} /\ ~isRunning)
       /\ Cardinality({ c \in Callers : startPc'[c] # "idle" }) <= 1]_vars

\* C40: the running flag is false at first; it becomes true only when the
\* connect of a start() succeeds; it becomes false only when a start()
\* fails or a disconnect of stop() succeeds, and it is false after a
\* start() has failed; a disconnect that fails leaves it as it is; and
\* while it is false no stop() begins a disconnect.
C40_RunningFlagFollowsLifecycle ==
    /\ ~isRunning
    /\ [][/\ (~isRunning /\ isRunning')
               => \E c \in Callers : startPc[c] = "connecting" /\ startPc'[c] = "run"
          /\ (isRunning /\ ~isRunning')
               => \/ \E c \in Callers : startPc[c] # "idle" /\ startPc'[c] = "idle"
                  \/ stopPc = "disconnecting" /\ stopPc' = "idle" /\ stopped'
          /\ \A c \in Callers :
               (\/ startPc[c] = "connecting" /\ startPc'[c] = "idle"
                \/ (startPc[c] = "run" /\ startPc'[c] = "idle"
                    /\ stopPc = "idle" /\ isRunning /\ runner' = "off"))
                 => ~isRunning'
          /\ (stopPc = "disconnecting" /\ stopPc' = "idle")
               => /\ (~stopped /\ stopped') => ~isRunning'
                  /\ (~stopped /\ ~stopped') => isRunning' = isRunning
          /\ (~isRunning /\ stopPc = "idle") => (stopPc' = "idle" /\ runner' = runner)]_vars

\* the consumer was started, stopped, started again, and a disconnect has
\* just failed: the flag is still true
C40_Witness ==
    /\ starts = 2
    /\ isRunning
    /\ runner = "off"
    /\ stopPc = "idle"
    /\ InStart = {}

====
